---- MODULE Spec2Model ----
(***************************************************************************)
(* A model of the trading engine of src/src/lib.rs (FastMemeTrader): the   *)
(* position store and the ATH tracker store, the exit-strategy evaluator,  *)
(* the monitoring loop, emergency liquidation, direct sells and buys.      *)
(*                                                                         *)
(* Prices are integers (hundredths of a price unit: 100 is 1.00).          *)
(* Percentages computed by the code with rust_decimal are fixed-point      *)
(* integers scaled by DecScale.                                            *)
(***************************************************************************)
EXTENDS Integers, Sequences, FiniteSets, TLC

VARIABLES positions, ath_tracker,
          pc, snapshot, price_updates, lookup_failed, idx, executed_sells, results,
          bpc, pending, buys,
          observed, should_sell,
          trade,
          in_flight, lookups, lister

storeVars == <<positions, ath_tracker>>
drvVars == <<pc, snapshot, price_updates, lookup_failed, idx, executed_sells, results>>
buyVars == <<bpc, pending, buys>>
evalVars == <<observed, should_sell>>
tradeVars == <<trade>>
\* The external calls of the running operation: the sells in flight and the
\* price lookups issued so far.
netVars == <<in_flight, lookups>>
listVars == <<lister>>
\* The variables the engine's own actions leave alone.
nonEngineVars == <<observed, should_sell, trade, lister>>
vars == <<positions, ath_tracker, pc, snapshot, price_updates, lookup_failed, idx,
          executed_sells, results, bpc, pending, buys, observed, should_sell,
          trade, in_flight, lookups, lister>>

----------------------------------------------------------------------------
(* Bounds and inputs *)

\* How many buys are confirmed in one run of Spec.
MaxBuys == 2

\* The highest price the oracle answers with under EvalSpec.
MaxPrice == 25

\* Token identifiers a caller may trade.
Tokens == {"X", "Y"}

\* StrategyType, lib.rs 58-63.
Strategies == {"Conservative", "Aggressive", "ConservativeATH", "AggressiveATH"}

\* The strategies bought with under Spec: one fixed-threshold, one trailing.
BuyStrategies == {"Conservative", "ConservativeATH"}

\* Prices the price oracle answers with under Spec (1.00 and 1.25).  An oracle
\* failure is a separate answer.
OraclePrices == {100, 125}

\* What get_jupiter_price may come back with: a price, or an error.
OracleAnswers == {[ok |-> TRUE, price |-> p] : p \in OraclePrices}
                    \cup {[ok |-> FALSE, price |-> 0]}

\* What the price lookup of initialize_position comes back with: the fill
\* price 1.00, or a failure.
BuyAnswers == {[ok |-> TRUE, price |-> 100], [ok |-> FALSE, price |-> 0]}

\* What sell_position may come back with: Err (balance lookup failed or zero
\* balance), Ok(TradeResult{success: false}) or Ok(TradeResult{success: true}).
SellOutcomes == {"err", "failed", "confirmed"}

----------------------------------------------------------------------------
(* Decimal arithmetic *)

\* Fixed-point scale standing for rust_decimal's 28 fractional digits.  For the
\* prices of this model no quotient lies within 1/DecScale of a threshold
\* without being equal to it, so the rounding decides no comparison.
DecScale == 100000

\* Decimal::from(n)
DecFrom(n) == n * DecScale

\* a / b for b > 0, rounded to the nearest representable value.
DecDiv(a, b) == (2 * a * DecScale + b) \div (2 * b)

Max(a, b) == IF a >= b THEN a ELSE b

\* Mutant of calculate_profit_percent: an entry price of zero is not answered
\* with zero but measured against the smallest price unit.
calculate_profit_percent_zeroAsUnit(entry_price, current_price) ==
    DecDiv(current_price - Max(entry_price, 1), Max(entry_price, 1)) * 100

\* calculate_profit_percent, lib.rs 912-917
calculate_profit_percent(entry_price, current_price) ==
    IF entry_price = 0
    THEN 0
    ELSE DecDiv(current_price - entry_price, entry_price) * 100

\* The pullback of check_ath_pullback_exit and get_ath_status.
pullback_from_ath(ath_price, current_price) ==
    IF ath_price > 0
    THEN DecDiv(ath_price - current_price, ath_price) * 100
    ELSE 0

----------------------------------------------------------------------------
(* Strategy thresholds *)

ConservativeTakeProfit == 15
ConservativeStopLoss == -5
AggressiveTakeProfit == 50
AggressiveStopLoss == -15
ConservativeATHPullback == 8
ConservativeATHMinProfit == 3
AggressiveATHPullback == 12
AggressiveATHMinProfit == 5
DefaultPullback == 10
DefaultMinProfit == 2

----------------------------------------------------------------------------
(* Records and maps *)

EmptyMap == [t \in {} |-> 0]

MapInsert(m, k, v) == [t \in DOMAIN m \cup {k} |-> IF t = k THEN v ELSE m[t]]

\* Mutant of MapRemove: removing a key the map does not hold empties the map.
MapRemove_absentClears(m, k) ==
    IF k \in DOMAIN m THEN [t \in DOMAIN m \ {k} |-> m[t]] ELSE [t \in {} |-> 0]

\* HashMap::remove, the returned Option discarded.
MapRemove(m, k) == [t \in DOMAIN m \ {k} |-> m[t]]

\* All orders in which a HashMap may iterate over the set S.
Orders(S) == {s \in [1..Cardinality(S) -> S] : \A i, j \in 1..Cardinality(S) : s[i] = s[j] => i = j}

\* The Position of initialize_position.
NewPosition(token, strategy, current_price) ==
    [token_address |-> token, entry_price |-> current_price, strategy |-> strategy]

\* The ATHTracker of initialize_position.
NewTracker(strategy, current_price) ==
    [entry_price |-> current_price,
     ath_price |-> current_price,
     last_price |-> current_price,
     pullback_percent |->
        CASE strategy = "ConservativeATH" -> DecFrom(ConservativeATHPullback)
          [] strategy = "AggressiveATH" -> DecFrom(AggressiveATHPullback)
          [] OTHER -> DecFrom(DefaultPullback),
     min_profit_percent |->
        CASE strategy = "ConservativeATH" -> DecFrom(ConservativeATHMinProfit)
          [] strategy = "AggressiveATH" -> DecFrom(AggressiveATHMinProfit)
          [] OTHER -> DecFrom(DefaultMinProfit)]

\* get_current_price: the oracle's price, or 0 when the oracle fails.
get_current_price(answer) ==
    IF answer.ok
    THEN [ok |-> TRUE, value |-> answer.price]
    ELSE [ok |-> TRUE, value |-> 0]

----------------------------------------------------------------------------
(* Exit-strategy evaluator *)

\* Mutant of UpdateTracker: the watermark follows every observation.
UpdateTracker_overwrite(tracker, current_price) ==
    [tracker EXCEPT !.ath_price = current_price, !.last_price = current_price]

\* The tracker update of evaluate_exit_strategy.
UpdateTracker(tracker, current_price) ==
    [tracker EXCEPT
        !.ath_price = IF current_price > tracker.ath_price THEN current_price ELSE @,
        !.last_price = current_price]

\* The write-locked block of evaluate_exit_strategy on the tracker store.
UpdateTrackers(trackers, token, current_price) ==
    IF token \in DOMAIN trackers
    THEN [trackers EXCEPT ![token] = UpdateTracker(@, current_price)]
    ELSE trackers

\* Mutant of FixedExit: the bounds are exclusive.
FixedExit_strict(position, current_price) ==
    LET profit_percent == calculate_profit_percent(position.entry_price, current_price)
    IN  IF position.strategy = "Conservative"
        THEN profit_percent > DecFrom(ConservativeTakeProfit)
                \/ profit_percent < DecFrom(ConservativeStopLoss)
        ELSE profit_percent > DecFrom(AggressiveTakeProfit)
                \/ profit_percent < DecFrom(AggressiveStopLoss)

\* The Conservative and Aggressive arms of evaluate_exit_strategy.
FixedExit(position, current_price) ==
    LET profit_percent == calculate_profit_percent(position.entry_price, current_price)
    IN  IF position.strategy = "Conservative"
        THEN profit_percent >= DecFrom(ConservativeTakeProfit)
                \/ profit_percent <= DecFrom(ConservativeStopLoss)
        ELSE profit_percent >= DecFrom(AggressiveTakeProfit)
                \/ profit_percent <= DecFrom(AggressiveStopLoss)

\* Mutant of check_ath_pullback_exit: either condition triggers the exit.
check_ath_pullback_exit_either(trackers, token, current_price) ==
    IF token \in DOMAIN trackers
    THEN LET tracker == trackers[token]
             profit_percent == calculate_profit_percent(tracker.entry_price, current_price)
             pullback == pullback_from_ath(tracker.ath_price, current_price)
         IN  profit_percent >= tracker.min_profit_percent
                \/ pullback >= tracker.pullback_percent
    ELSE FALSE

\* check_ath_pullback_exit
check_ath_pullback_exit(trackers, token, current_price) ==
    IF token \in DOMAIN trackers
    THEN LET tracker == trackers[token]
             profit_percent == calculate_profit_percent(tracker.entry_price, current_price)
             pullback == pullback_from_ath(tracker.ath_price, current_price)
         IN  profit_percent >= tracker.min_profit_percent
                /\ pullback >= tracker.pullback_percent
    ELSE FALSE

IsATH(strategy) == strategy \in {"ConservativeATH", "AggressiveATH"}

----------------------------------------------------------------------------
(* Order execution pipeline: constants and the state of one trade request *)

\* max_retries of get_jupiter_quote_with_retry, as buy_jupiter passes it.
MaxQuoteRetries == 3
\* The attempts of send_with_retry.
MaxSendAttempts == 5
\* The base delay of both back-offs, in milliseconds.
QuoteBaseDelay == 500
DefaultSlippageBps == 100
MaxSlippageBps == 5000
SellSlippageBps == 500
SendBaseDelay == 500

TradeKinds == {"buy_jupiter", "buy_pumpfun", "sell_jupiter"}

\* How a remote call fails.
RemoteFailures == {"timeout", "http_error"}

\* No slippage: no buy_jupiter is running, or no quote request was sent.
NoSlippage == -1

\* No trade request is running.  amount and address are the classes of the
\* request's inputs; the *_requests fields, probes and broadcasts count the
\* network calls made; answered is what the latest remote call came back with
\* and built what the build request came back with; failed_in is the phase the
\* trade failed in and context the text wrapped around the error; nonce is the
\* blockhash the transaction is signed over and submitted the nonces of the
\* broadcast attempts; established says the token is one of token_addresses,
\* would_answer is what the pump.fun probe answers for it, platform what
\* detect_best_platform returned; fee_answer is what the fee estimator came
\* back with and priority_fee the fee put into the request; store_writes
\* counts the inserts the request made into the two stores; quote_delays and
\* send_delays are the sleeps the two retry loops have taken, in milliseconds;
\* tokens_received and signature are the pair a buy's platform call returns
\* (the signature named by the nonce of the confirmed submission);
\* slippage_bps is the slippage of the request's TradeConfig and slippage_sent
\* the slippageBps of the latest quote request.
NoTrade ==
    [kind |-> "none", phase |-> "Idle", attempt |-> 0, quote_requests |-> 0,
     build_requests |-> 0, broadcasts |-> 0, last_error |-> "none", error |-> "none",
     delay |-> 0,
     amount |-> "none", address |-> "none", probes |-> 0, balance_requests |-> 0,
     fee_requests |-> 0, blockhash_requests |-> 0, answered |-> "none", built |-> "none",
     failed_in |-> "none", context |-> "none", nonce |-> 0, submitted |-> <<>>,
     established |-> FALSE, would_answer |-> "none", platform |-> "none",
     fee_answer |-> [kind |-> "none", tenths |-> 0], priority_fee |-> 0,
     store_writes |-> 0, quote_delays |-> <<>>, send_delays |-> <<>>,
     tokens_received |-> 0, signature |-> 0,
     slippage_bps |-> NoSlippage, slippage_sent |-> NoSlippage]

----------------------------------------------------------------------------
(* External calls and lock holders *)

\* Mutant of SellReturned: the sell is detached and the loop does not wait.
SellReturned_detached(flying, token) == flying

\* sell_position(token) is called: its pipeline is in flight until it returns.
SellCalled(flying, token) == flying \cup {token}

\* The awaited sell_position(token) has returned.
SellReturned(flying, token) == flying \ {token}

\* No call of list_positions or get_performance_stats is running.
NoLister == [op |-> "none", holds |-> {}, order |-> <<>>, i |-> 0, in_call |-> FALSE, rows |-> 0]

\* The write lock of the position store can be taken: no reader holds it.
PositionsWritable == "positions" \notin lister.holds

----------------------------------------------------------------------------
(* Initial state: FastMemeTrader::new *)

Init ==
    /\ positions = EmptyMap
    /\ ath_tracker = EmptyMap
    /\ pc = "idle"
    /\ snapshot = <<>>
    /\ price_updates = EmptyMap
    /\ lookup_failed = {}
    /\ idx = 0
    /\ executed_sells = <<>>
    /\ results = <<>>
    /\ bpc = "idle"
    /\ pending = EmptyMap
    /\ buys = 0
    /\ observed = -1
    /\ should_sell = FALSE
    /\ trade = NoTrade
    /\ in_flight = {}
    /\ lookups = <<>>
    /\ lister = NoLister

----------------------------------------------------------------------------
(* buy_fast: a confirmed buy followed by initialize_position *)

\* buy_fast up to the first store access of initialize_position: the trade is
\* confirmed, the fill price is looked up (0 when the lookup fails) and the
\* Position is inserted under the position store's write lock.
BuyInsertPosition(token, strategy, answer) ==
    /\ bpc = "idle"
    /\ buys < MaxBuys
    /\ PositionsWritable
    /\ buys' = buys + 1
    /\ LET current_price == get_current_price(answer).value
       IN  /\ positions' = MapInsert(positions, token, NewPosition(token, strategy, current_price))
           /\ pending' = MapInsert(EmptyMap, token, NewTracker(strategy, current_price))
    /\ bpc' = "b_trk"
    /\ UNCHANGED <<ath_tracker, drvVars, netVars, nonEngineVars>>

\* The second block of initialize_position: the tracker is inserted under the
\* tracker store's write lock.
BuyInsertTracker ==
    /\ bpc = "b_trk"
    /\ \E token \in DOMAIN pending :
          ath_tracker' = MapInsert(ath_tracker, token, pending[token])
    /\ bpc' = "idle"
    /\ pending' = EmptyMap
    /\ UNCHANGED <<positions, buys, drvVars, netVars, nonEngineVars>>

----------------------------------------------------------------------------
(* monitor_positions *)

\* After the position at idx: the next position, or the end of the loop.
MonitorAdvance ==
    IF idx < Len(snapshot)
    THEN pc' = "m_eval" /\ idx' = idx + 1
    ELSE pc' = "m_ret" /\ idx' = 0

\* The snapshot of the position store, in the map's iteration order, and the
\* early return when there is no position.
MonitorSnapshot ==
    /\ pc = "idle"
    /\ IF DOMAIN positions = {}
       THEN /\ pc' = "m_ret"
            /\ UNCHANGED <<snapshot, idx>>
       ELSE /\ \E order \in Orders(DOMAIN positions) :
                  snapshot' = [i \in 1..Len(order) |-> positions[order[i]]]
            /\ idx' = 1
            /\ pc' = "m_fetch"
    /\ UNCHANGED <<storeVars, price_updates, lookup_failed, executed_sells, results, buyVars,
                   netVars, nonEngineVars>>

\* Mutant of FetchTarget: every iteration looks up the first position's token.
FetchTarget_first(snap, i) == snap[1].token_address

\* The token whose price the i-th iteration of the price batch looks up.
FetchTarget(snap, i) == snap[i].token_address

\* Mutant of BatchContinues: the evaluation loop starts after the first lookup.
BatchContinues_eager(snap, i) == FALSE

\* The price batch (the first for loop of monitor_positions) has positions left
\* after its i-th iteration; the evaluation loop starts when it has none.
BatchContinues(snap, i) == i < Len(snap)

\* One iteration of the price batch: the lookup for the position at idx.
MonitorFetchPrice(answer) ==
    /\ pc = "m_fetch"
    /\ LET token == FetchTarget(snapshot, idx)
           price == get_current_price(answer)
       IN  /\ lookups' = Append(lookups, token)
           /\ price_updates' = IF price.ok
                               THEN MapInsert(price_updates, token, price.value)
                               ELSE price_updates
           /\ lookup_failed' = IF answer.ok THEN lookup_failed ELSE lookup_failed \cup {token}
    /\ IF BatchContinues(snapshot, idx)
       THEN idx' = idx + 1 /\ pc' = "m_fetch"
       ELSE idx' = 1 /\ pc' = "m_eval"
    /\ UNCHANGED <<storeVars, snapshot, executed_sells, results, buyVars, in_flight,
                   nonEngineVars>>

\* Mutant of MonitorEvalOutcome: one failed lookup (a price of 0 in the batch)
\* makes the loop skip every position.
MonitorEvalOutcome_allOrNothing(updates, position, trackers) ==
    LET token == position.token_address
    IN  IF token \in DOMAIN updates /\ \A t \in DOMAIN updates : updates[t] # 0
        THEN [evaluated |-> TRUE,
              trackers |-> UpdateTrackers(trackers, token, updates[token]),
              next |-> IF IsATH(position.strategy)
                       THEN "m_check"
                       ELSE IF FixedExit(position, updates[token])
                            THEN "m_sell"
                            ELSE "advance"]
        ELSE [evaluated |-> FALSE, trackers |-> trackers, next |-> "advance"]

\* What one iteration of the evaluation loop does with a position, given the
\* cycle's price batch: whether the position is evaluated, the tracker store
\* after evaluate_exit_strategy's first block, and where the loop goes next
\* (the pullback check, the sell, or the next position).
MonitorEvalOutcome(updates, position, trackers) ==
    LET token == position.token_address
    IN  IF token \in DOMAIN updates
        THEN [evaluated |-> TRUE,
              trackers |-> UpdateTrackers(trackers, token, updates[token]),
              next |-> IF IsATH(position.strategy)
                       THEN "m_check"
                       ELSE IF FixedExit(position, updates[token])
                            THEN "m_sell"
                            ELSE "advance"]
        ELSE [evaluated |-> FALSE, trackers |-> trackers, next |-> "advance"]

\* evaluate_exit_strategy for the position at idx: the tracker update, and the
\* decision of the fixed-threshold strategies.
MonitorEvaluate ==
    /\ pc = "m_eval"
    /\ LET outcome == MonitorEvalOutcome(price_updates, snapshot[idx], ath_tracker)
       IN  /\ ath_tracker' = outcome.trackers
           /\ IF outcome.next = "advance"
              THEN MonitorAdvance
              ELSE pc' = outcome.next /\ idx' = idx
           /\ in_flight' = IF outcome.next = "m_sell"
                           THEN SellCalled(in_flight, snapshot[idx].token_address)
                           ELSE in_flight
    /\ UNCHANGED <<positions, snapshot, price_updates, lookup_failed, executed_sells,
                   results, buyVars, lookups, nonEngineVars>>

\* Where the loop goes after check_ath_pullback_exit for a position.
MonitorCheckOutcome(updates, position, trackers) ==
    IF check_ath_pullback_exit(trackers, position.token_address,
                               updates[position.token_address])
    THEN "m_sell"
    ELSE "advance"

\* check_ath_pullback_exit for the position at idx, under the read lock.
MonitorCheckAth ==
    /\ pc = "m_check"
    /\ IF MonitorCheckOutcome(price_updates, snapshot[idx], ath_tracker) = "m_sell"
       THEN /\ pc' = "m_sell" /\ idx' = idx
            /\ in_flight' = SellCalled(in_flight, snapshot[idx].token_address)
       ELSE /\ MonitorAdvance
            /\ UNCHANGED in_flight
    /\ UNCHANGED <<storeVars, snapshot, price_updates, lookup_failed, executed_sells,
                   results, buyVars, lookups, nonEngineVars>>

\* sell_position for the triggered position comes back.
MonitorSell(outcome) ==
    /\ pc = "m_sell"
    /\ in_flight' = SellReturned(in_flight, snapshot[idx].token_address)
    /\ IF outcome = "err"
       THEN /\ MonitorAdvance
            /\ UNCHANGED executed_sells
       ELSE /\ executed_sells' = Append(executed_sells,
                    [token |-> snapshot[idx].token_address, success |-> outcome = "confirmed"])
            /\ pc' = "m_rm_pos"
            /\ idx' = idx
    /\ UNCHANGED <<storeVars, snapshot, price_updates, lookup_failed, results, buyVars,
                   lookups, nonEngineVars>>

MonitorRemovePosition ==
    /\ pc = "m_rm_pos"
    /\ PositionsWritable
    /\ positions' = MapRemove(positions, snapshot[idx].token_address)
    /\ pc' = "m_rm_trk"
    /\ UNCHANGED <<ath_tracker, snapshot, price_updates, lookup_failed, idx, executed_sells,
                   results, buyVars, netVars, nonEngineVars>>

MonitorRemoveTracker ==
    /\ pc = "m_rm_trk"
    /\ ath_tracker' = MapRemove(ath_tracker, snapshot[idx].token_address)
    /\ MonitorAdvance
    /\ UNCHANGED <<positions, snapshot, price_updates, lookup_failed, executed_sells,
                   results, buyVars, netVars, nonEngineVars>>

\* monitor_positions returns executed_sells; its locals are dropped.
MonitorReturn ==
    /\ pc = "m_ret"
    /\ pc' = "idle"
    /\ snapshot' = <<>>
    /\ price_updates' = EmptyMap
    /\ lookup_failed' = {}
    /\ idx' = 0
    /\ executed_sells' = <<>>
    /\ lookups' = <<>>
    /\ UNCHANGED <<storeVars, results, buyVars, in_flight, nonEngineVars>>

----------------------------------------------------------------------------
(* emergency_sell_all *)

\* The snapshot of the open tokens, in the map's iteration order.
EmergencySnapshot ==
    /\ pc = "idle"
    /\ \E order \in Orders(DOMAIN positions) :
          /\ snapshot' = order
          /\ IF Len(order) = 0
             THEN pc' = "e_clr_pos" /\ idx' = 0 /\ UNCHANGED in_flight
             ELSE /\ pc' = "e_sell" /\ idx' = 1
                  /\ in_flight' = SellCalled(in_flight, order[1])
    /\ UNCHANGED <<storeVars, price_updates, lookup_failed, executed_sells, results, buyVars,
                   lookups, nonEngineVars>>

\* sell_position for the token at idx comes back.
EmergencySell(outcome) ==
    /\ pc = "e_sell"
    /\ results' = IF outcome = "err"
                  THEN results
                  ELSE Append(results, [token |-> snapshot[idx], success |-> outcome = "confirmed"])
    /\ IF idx < Len(snapshot)
       THEN /\ pc' = "e_sell" /\ idx' = idx + 1
            /\ in_flight' = SellCalled(SellReturned(in_flight, snapshot[idx]),
                                        snapshot[idx + 1])
       ELSE /\ pc' = "e_clr_pos" /\ idx' = 0
            /\ in_flight' = SellReturned(in_flight, snapshot[idx])
    /\ UNCHANGED <<storeVars, snapshot, price_updates, lookup_failed, executed_sells, buyVars,
                   lookups, nonEngineVars>>

EmergencyClearPositions ==
    /\ pc = "e_clr_pos"
    /\ PositionsWritable
    /\ positions' = EmptyMap
    /\ pc' = "e_clr_trk"
    /\ UNCHANGED <<ath_tracker, snapshot, price_updates, lookup_failed, idx, executed_sells,
                   results, buyVars, netVars, nonEngineVars>>

EmergencyClearTrackers ==
    /\ pc = "e_clr_trk"
    /\ ath_tracker' = EmptyMap
    /\ pc' = "e_ret"
    /\ UNCHANGED <<positions, snapshot, price_updates, lookup_failed, idx, executed_sells,
                   results, buyVars, netVars, nonEngineVars>>

\* emergency_sell_all returns results; its locals are dropped.
EmergencyReturn ==
    /\ pc = "e_ret"
    /\ pc' = "idle"
    /\ snapshot' = <<>>
    /\ results' = <<>>
    /\ UNCHANGED <<storeVars, price_updates, lookup_failed, idx, executed_sells, buyVars,
                   netVars, nonEngineVars>>

----------------------------------------------------------------------------
(* sell_position called by the caller (quick_sell) *)

SellStart(token) ==
    /\ pc = "idle"
    /\ pc' = "s_sell"
    /\ snapshot' = <<token>>
    /\ in_flight' = SellCalled(in_flight, token)
    /\ UNCHANGED <<storeVars, price_updates, lookup_failed, idx, executed_sells, results, buyVars,
                   lookups, nonEngineVars>>

\* The balance lookup and sell_jupiter come back; sell_position touches no store.
SellFinish(outcome) ==
    /\ pc = "s_sell"
    /\ results' = IF outcome = "err"
                  THEN <<>>
                  ELSE <<[token |-> snapshot[1], success |-> outcome = "confirmed"]>>
    /\ pc' = "s_ret"
    /\ in_flight' = SellReturned(in_flight, snapshot[1])
    /\ UNCHANGED <<storeVars, snapshot, price_updates, lookup_failed, idx, executed_sells, buyVars,
                   lookups, nonEngineVars>>

\* quick_sell prints the result.
SellReturn ==
    /\ pc = "s_ret"
    /\ pc' = "idle"
    /\ snapshot' = <<>>
    /\ results' = <<>>
    /\ UNCHANGED <<storeVars, price_updates, lookup_failed, idx, executed_sells, buyVars,
                   netVars, nonEngineVars>>

----------------------------------------------------------------------------

Next ==
    \/ \E token \in Tokens, strategy \in BuyStrategies, answer \in BuyAnswers :
          BuyInsertPosition(token, strategy, answer)
    \/ BuyInsertTracker
    \/ MonitorSnapshot
    \/ \E answer \in OracleAnswers : MonitorFetchPrice(answer)
    \/ MonitorEvaluate
    \/ MonitorCheckAth
    \/ \E outcome \in SellOutcomes : MonitorSell(outcome)
    \/ MonitorRemovePosition
    \/ MonitorRemoveTracker
    \/ MonitorReturn
    \/ EmergencySnapshot
    \/ \E outcome \in SellOutcomes : EmergencySell(outcome)
    \/ EmergencyClearPositions
    \/ EmergencyClearTrackers
    \/ EmergencyReturn
    \/ \E token \in Tokens : SellStart(token)
    \/ \E outcome \in SellOutcomes : SellFinish(outcome)
    \/ SellReturn

Spec == Init /\ [][Next]_vars

----------------------------------------------------------------------------
(* EvalSpec: one token bought, observed and closed, call after call *)

EvalToken == "X"

\* The oracle's answers under EvalSpec: every price up to MaxPrice, or an error.
EvalAnswers == {[ok |-> TRUE, price |-> p] : p \in 1..MaxPrice}
                  \cup {[ok |-> FALSE, price |-> 0]}

\* Mutant of ExitDecision: every strategy is decided on the tracker.
ExitDecision_allTrailing(position, trackers, current_price) ==
    check_ath_pullback_exit(trackers, position.token_address, current_price)

\* The value evaluate_exit_strategy returns, given the tracker store as its
\* first block left it.
ExitDecision(position, trackers, current_price) ==
    IF IsATH(position.strategy)
    THEN check_ath_pullback_exit(trackers, position.token_address, current_price)
    ELSE FixedExit(position, current_price)

\* get_ath_status: the figures of the status line of a token's tracker, from
\* the tracker's own last price; none when the token has no tracker.
get_ath_status(trackers, token) ==
    IF token \in DOMAIN trackers
    THEN LET tracker == trackers[token]
         IN  [some |-> TRUE,
              entry_price |-> tracker.entry_price,
              ath_price |-> tracker.ath_price,
              last_price |-> tracker.last_price,
              profit_percent |-> calculate_profit_percent(tracker.entry_price,
                                                          tracker.last_price),
              pullback_from_ath |-> pullback_from_ath(tracker.ath_price,
                                                      tracker.last_price)]
    ELSE [some |-> FALSE]

\* Mutant of evaluate_exit_strategy: the strategy is evaluated against the
\* tracker as it was before this observation, and the tracker is updated after.
evaluate_exit_strategy_checkFirst(position, trackers, current_price) ==
    LET token == position.token_address
    IN  [trackers |-> UpdateTrackers(trackers, token, current_price),
         pullback |-> IF IsATH(position.strategy) /\ token \in DOMAIN trackers
                      THEN pullback_from_ath(trackers[token].ath_price, current_price)
                      ELSE 0,
         should_sell |-> ExitDecision(position, trackers, current_price)]

\* evaluate_exit_strategy: the write-locked tracker update first, then the
\* strategy match on the updated store.  pullback is the value
\* check_ath_pullback_exit computes on the way (0 where it computes none).
evaluate_exit_strategy(position, trackers, current_price) ==
    LET token == position.token_address
        updated == UpdateTrackers(trackers, token, current_price)
    IN  [trackers |-> updated,
         pullback |-> IF IsATH(position.strategy) /\ token \in DOMAIN updated
                      THEN pullback_from_ath(updated[token].ath_price, current_price)
                      ELSE 0,
         should_sell |-> ExitDecision(position, updated, current_price)]

\* initialize_position after a confirmed buy, both inserts.  Under EvalSpec a
\* token is bought while it has no open position (Spec has the other buys).
EvalBuy(strategy, answer) ==
    /\ EvalToken \notin DOMAIN positions
    /\ LET current_price == get_current_price(answer).value
       IN  /\ positions' = MapInsert(positions, EvalToken,
                                     NewPosition(EvalToken, strategy, current_price))
           /\ ath_tracker' = MapInsert(ath_tracker, EvalToken,
                                       NewTracker(strategy, current_price))
    /\ observed' = -1
    /\ should_sell' = FALSE
    /\ UNCHANGED <<drvVars, buyVars, tradeVars, netVars, listVars>>

\* One price observation of the monitoring loop: the lookup and
\* evaluate_exit_strategy.
EvalObserve(answer) ==
    /\ EvalToken \in DOMAIN positions
    /\ LET price == get_current_price(answer)
       IN  /\ price.ok
           /\ LET run == evaluate_exit_strategy(positions[EvalToken], ath_tracker, price.value)
              IN  /\ ath_tracker' = run.trackers
                  /\ should_sell' = run.should_sell
           /\ observed' = price.value
    /\ UNCHANGED <<positions, drvVars, buyVars, tradeVars, netVars, listVars>>

\* The position is closed: both records removed.
EvalClose ==
    /\ EvalToken \in DOMAIN positions
    /\ positions' = MapRemove(positions, EvalToken)
    /\ ath_tracker' = MapRemove(ath_tracker, EvalToken)
    /\ observed' = -1
    /\ should_sell' = FALSE
    /\ UNCHANGED <<drvVars, buyVars, tradeVars, netVars, listVars>>

EvalNext ==
    \/ \E strategy \in Strategies, answer \in EvalAnswers : EvalBuy(strategy, answer)
    \/ \E answer \in EvalAnswers : EvalObserve(answer)
    \/ EvalClose

EvalSpec == Init /\ [][EvalNext]_vars

----------------------------------------------------------------------------
(* LockSpec: list_positions and get_performance_stats next to the buyer *)

ListOps == {"list_positions", "get_performance_stats"}

\* The read lock of the position store is taken and the iteration over the
\* map begins; the guard lives until the function returns.
ListStart(op) ==
    /\ lister.op = "none"
    /\ \E order \in Orders(DOMAIN positions) :
          lister' = [op |-> op, holds |-> {"positions"}, order |-> order, i |-> 1,
                     in_call |-> FALSE, rows |-> 0]
    /\ UNCHANGED <<storeVars, drvVars, buyVars, evalVars, tradeVars, netVars>>

\* get_current_price is called for the token the iteration is at.
ListLookupStart ==
    /\ lister.op # "none"
    /\ ~lister.in_call
    /\ lister.i <= Len(lister.order)
    /\ lister' = [lister EXCEPT !.in_call = TRUE]
    /\ UNCHANGED <<storeVars, drvVars, buyVars, evalVars, tradeVars, netVars>>

\* The price lookup comes back and the row of the token is produced.
ListLookupDone(answer) ==
    /\ lister.in_call
    /\ lister' = [lister EXCEPT !.in_call = FALSE,
                                !.i = @ + 1,
                                !.rows = IF get_current_price(answer).ok THEN @ + 1 ELSE @]
    /\ UNCHANGED <<storeVars, drvVars, buyVars, evalVars, tradeVars, netVars>>

\* The function returns and the guard is dropped.
ListReturn ==
    /\ lister.op # "none"
    /\ ~lister.in_call
    /\ lister.i > Len(lister.order)
    /\ lister' = NoLister
    /\ UNCHANGED <<storeVars, drvVars, buyVars, evalVars, tradeVars, netVars>>

LockNext ==
    \/ \E token \in Tokens, strategy \in BuyStrategies, answer \in BuyAnswers :
          BuyInsertPosition(token, strategy, answer)
    \/ BuyInsertTracker
    \/ \E op \in ListOps : ListStart(op)
    \/ ListLookupStart
    \/ \E answer \in OracleAnswers : ListLookupDone(answer)
    \/ ListReturn

LockSpec == Init /\ [][LockNext]_vars

----------------------------------------------------------------------------
(* TradeSpec: the order execution pipeline of one trade request *)

\* What a quote request comes back with: a quote, a response with neither
\* "data" nor "outAmount" (invalid), a response whose "data" has no usable
\* "outAmount" (malformed), or a failure.
QuoteAnswers == {"ok", "invalid", "malformed"} \cup RemoteFailures

\* What any other remote call comes back with.
CallAnswers == {"ok"} \cup RemoteFailures

\* What the build request comes back with: also a 200 without a transaction.
BuildAnswers == CallAnswers \cup {"no_payload"}

\* The classes of config.amount_sol and config.token_address: an address
\* shorter than 8 bytes, one of 8 bytes or more that is not 44 long, one of
\* 44 characters that is no public key, and a valid one.
AmountClasses == {"below", "in_range", "above"}
AddressClasses == {"short", "wrong_length", "not_a_key", "valid"}

\* 500 * attempt
QuoteBackoff(attempt) == QuoteBaseDelay * attempt

\* Mutant of SendBackoff: the delay grows linearly.
SendBackoff_linear(attempt) == SendBaseDelay * attempt

\* 500 * (1u64 << (attempt - 1))
SendBackoff(attempt) == SendBaseDelay * 2 ^ (attempt - 1)

\* The network calls the trade request has made.
NetworkCalls ==
    trade.probes + trade.balance_requests + trade.quote_requests + trade.fee_requests
        + trade.build_requests + trade.blockhash_requests + trade.broadcasts

\* The phase a failure is attributed to.
PhaseOf(phase) ==
    CASE phase = "QuoteSleep" -> "Quoting"
      [] phase = "SendSleep" -> "Broadcasting"
      [] OTHER -> phase

\* The trade ends Failed with the error e.
Fail(e) == trade' = [trade EXCEPT !.phase = "Failed", !.error = e,
                                  !.failed_in = PhaseOf(trade.phase)]

\* Mutant of KeepError: the first error of the loop is kept.
KeepError_first(last_error, e) == IF last_error = "none" THEN e ELSE last_error

\* last_error = Some(e) in both retry loops.
KeepError(last_error, e) == e

\* &config.token_address[..8] in the log line at the top of buy_fast: the
\* slice is taken only when the Info level is enabled, and panics when the
\* address has fewer than 8 bytes.
LogSlicePanics(address, log_info) == log_info /\ address = "short"

\* The two validations of buy_fast, in their order.
ValidateBuy(amount, address) ==
    IF amount # "in_range"
    THEN "amount_out_of_bounds"
    ELSE IF address # "valid"
         THEN "invalid_token_address"
         ELSE "ok"

\* buy_fast up to detect_best_platform: the log line and the validations.
BuyFast(amount, address, log_info) ==
    /\ trade.phase = "Idle"
    /\ LET request == [NoTrade EXCEPT !.kind = "buy_fast", !.amount = amount,
                                      !.address = address]
       IN  IF LogSlicePanics(address, log_info)
           THEN trade' = [request EXCEPT !.phase = "Panicked", !.failed_in = "Validating"]
           ELSE IF ValidateBuy(amount, address) # "ok"
                THEN trade' = [request EXCEPT !.phase = "Failed",
                                              !.failed_in = "Validating",
                                              !.error = ValidateBuy(amount, address)]
                ELSE trade' = [request EXCEPT !.phase = "Detecting"]
    /\ UNCHANGED <<storeVars, drvVars, buyVars, evalVars, netVars, listVars>>

\* What the pump.fun existence probe comes back with: 200, another success
\* status, an error status, a transport error, or nothing within 3 s.
ProbeAnswers == {"200", "204", "404", "error", "timeout"}

\* is_pumpfun_token: false for the established tokens; otherwise whether the
\* probe came back Ok with status 200.
is_pumpfun_token(established, probe) == ~established /\ probe = "200"

\* Mutant of detect_best_platform: the established tokens are probed and
\* routed like any other token.
detect_best_platform_probeAll(established, probe) ==
    [platform |-> IF probe = "200" THEN "PumpFun" ELSE "Jupiter", probes |-> 1]

\* detect_best_platform: the platform it returns and the probes it issues.
detect_best_platform(established, probe) ==
    IF established
    THEN [platform |-> "Jupiter", probes |-> 0]
    ELSE [platform |-> IF is_pumpfun_token(established, probe)
                       THEN "PumpFun"
                       ELSE "Jupiter",
          probes |-> 1]

\* The established tokens are 43 or 44 characters long.
EstablishedAddress(address) == address \in {"valid", "wrong_length"}

\* detect_best_platform called on its own (platform_test, or any caller of the
\* public method) with an identifier that went through no validation.  The
\* established tokens return before any slice; for the others the log line
\* after the probe slices the identifier's first 8 bytes.
DetectPlatform(address, established, probe, log_info) ==
    /\ trade.phase = "Idle"
    /\ established => EstablishedAddress(address)
    /\ LET found == detect_best_platform(established, probe)
           request == [NoTrade EXCEPT !.kind = "detect", !.address = address,
                                      !.established = established,
                                      !.would_answer = probe,
                                      !.probes = found.probes]
       IN  IF ~established /\ LogSlicePanics(address, log_info)
           THEN trade' = [request EXCEPT !.phase = "Panicked", !.failed_in = "Detecting"]
           ELSE trade' = [request EXCEPT !.phase = "Detected",
                                         !.platform = found.platform]
    /\ UNCHANGED <<storeVars, drvVars, buyVars, evalVars, netVars, listVars>>

\* A trade request enters its first remote phase.  A buy goes where
\* detect_best_platform sends it: buy_jupiter asks for a quote with retries,
\* buy_pumpfun has no quote.  A sell (sell_position with a positive balance)
\* asks for one quote; it detects no platform.  The slippage of the request's
\* TradeConfig is carried where get_jupiter_quote reads it.
TradeStart(kind, established, probe, slippage_bps) ==
    /\ IF kind = "sell_jupiter"
       THEN /\ trade.phase = "Idle"
            /\ trade' = [trade EXCEPT !.kind = kind, !.phase = "Quoting", !.attempt = 1,
                                      !.balance_requests = 1]
       ELSE /\ trade.phase = "Detecting"
            /\ LET found == detect_best_platform(established, probe)
               IN  /\ kind = (IF found.platform = "PumpFun"
                              THEN "buy_pumpfun"
                              ELSE "buy_jupiter")
                   /\ trade' = [trade EXCEPT
                                   !.kind = kind,
                                   !.phase = IF kind = "buy_pumpfun"
                                             THEN "Building"
                                             ELSE "Quoting",
                                   !.attempt = IF kind = "buy_pumpfun" THEN 0 ELSE 1,
                                   !.established = established,
                                   !.would_answer = probe,
                                   !.probes = found.probes,
                                   !.platform = found.platform,
                                   !.slippage_bps = IF kind = "buy_jupiter"
                                                    THEN slippage_bps
                                                    ELSE NoSlippage]
    /\ UNCHANGED <<storeVars, drvVars, buyVars, evalVars, netVars, listVars>>

\* sell_position finds a zero balance (or the balance lookup fails).
SellNoBalance ==
    /\ trade.phase = "Idle"
    /\ trade' = [NoTrade EXCEPT !.kind = "sell_jupiter", !.balance_requests = 1,
                                !.phase = "Failed", !.failed_in = "Validating",
                                !.error = "no_tokens_to_sell"]
    /\ UNCHANGED <<storeVars, drvVars, buyVars, evalVars, netVars, listVars>>

\* The outAmount of a usable quote, parsed to u64.
QuotedTokens == 2500

\* amount_lamports of the buys followed: the smallest amount buy_jupiter
\* accepts.
BuyLamports == 1000

\* estimate_pumpfun_tokens
estimate_pumpfun_tokens(amount_lamports) == amount_lamports * 1000000

\* The slippages a request comes with (a u16): none, the two ends of the
\* accepted range and one past it.
SlippageInputs == {0, 1, MaxSlippageBps, MaxSlippageBps + 1}

\* Mutant of QuoteSlippage: no upper cap.
QuoteSlippage_uncapped(slippage_bps) ==
    IF slippage_bps = 0 THEN DefaultSlippageBps ELSE slippage_bps

\* The slippageBps get_jupiter_quote puts into the quote URL.
QuoteSlippage(slippage_bps) ==
    IF slippage_bps = 0
    THEN DefaultSlippageBps
    ELSE IF slippage_bps > MaxSlippageBps
         THEN MaxSlippageBps
         ELSE slippage_bps

\* One iteration of get_jupiter_quote_with_retry (buy), or the single quote
\* request of sell_jupiter, whose URL has a fixed slippage.  Nothing reads the
\* slippage once the quote is in: the pipeline goes on with the quote alone.
QuoteAttempt(answer) ==
    /\ trade.phase = "Quoting"
    /\ LET sent == [trade EXCEPT !.quote_requests = @ + 1, !.answered = answer,
                                 !.slippage_sent =
                                     IF trade.kind = "sell_jupiter"
                                     THEN SellSlippageBps
                                     ELSE QuoteSlippage(trade.slippage_bps)]
       IN  IF trade.kind = "sell_jupiter"
           THEN IF answer \in RemoteFailures
                THEN trade' = [sent EXCEPT !.phase = "Failed", !.error = answer,
                                           !.failed_in = "Quoting"]
                ELSE trade' = [sent EXCEPT !.phase = "Building", !.attempt = 0,
                                           !.slippage_sent = NoTrade.slippage_sent]
           ELSE IF answer = "ok"
                THEN trade' = [sent EXCEPT !.phase = "Building", !.attempt = 0,
                                           !.tokens_received = QuotedTokens,
                                           !.slippage_bps = NoTrade.slippage_bps,
                                           !.slippage_sent = NoTrade.slippage_sent]
                ELSE IF answer = "malformed"
                THEN trade' = [sent EXCEPT !.phase = "Failed", !.error = "no_out_amount",
                                           !.failed_in = "Quoting"]
                ELSE IF trade.attempt < MaxQuoteRetries
                     THEN trade' = [sent EXCEPT !.phase = "QuoteSleep",
                                                !.last_error = KeepError(@, answer),
                                                !.delay = QuoteBackoff(trade.attempt),
                                                !.quote_delays =
                                                    Append(@, QuoteBackoff(trade.attempt))]
                     ELSE trade' = [sent EXCEPT !.phase = "Failed",
                                                !.last_error = KeepError(@, answer),
                                                !.error = KeepError(trade.last_error, answer),
                                                !.failed_in = "Quoting"]
    /\ UNCHANGED <<storeVars, drvVars, buyVars, evalVars, netVars, listVars>>

\* The sleep between two quote attempts ends.
QuoteSleepDone ==
    /\ trade.phase = "QuoteSleep"
    /\ trade' = [trade EXCEPT !.phase = "Quoting", !.attempt = @ + 1]
    /\ UNCHANGED <<storeVars, drvVars, buyVars, evalVars, netVars, listVars>>

\* The 15 s timeout around get_jupiter_quote_with_retry fires.
QuoteTimeout ==
    /\ trade.kind = "buy_jupiter"
    /\ trade.phase \in {"Quoting", "QuoteSleep"}
    /\ Fail("elapsed")
    /\ UNCHANGED <<storeVars, drvVars, buyVars, evalVars, netVars, listVars>>

\* max_priority_fee, as the constructor sets it.
MaxPriorityFee == 200000

\* The fee calculate_priority_fee falls back to.
FallbackFee == 150000

\* The estimator's fee is a float; the model carries it in tenths of a
\* micro-lamport.
FeeScale == 10

\* What the fee estimator comes back with: an estimate (negative, fractional,
\* above the maximum), a response without a numeric priorityFeeEstimate, or a
\* failed request.
FeeAnswers ==
    {[kind |-> "estimate", tenths |-> t] :
        t \in {-15, 100825, (MaxPriorityFee + 50000) * FeeScale + 5}}
      \cup {[kind |-> "no_estimate", tenths |-> 0], [kind |-> "failure", tenths |-> 0]}

Min(a, b) == IF a <= b THEN a ELSE b

\* `fee as u64` on an f64: the fraction is dropped and a negative value
\* becomes 0.
f64_as_u64(tenths) == IF tenths < 0 THEN 0 ELSE tenths \div FeeScale

\* Mutant of calculate_priority_fee: the estimate is used as it comes.
calculate_priority_fee_uncapped(answer) ==
    IF answer.kind = "estimate" THEN f64_as_u64(answer.tenths) ELSE FallbackFee

\* calculate_priority_fee
calculate_priority_fee(answer) ==
    IF answer.kind = "estimate"
    THEN Min(f64_as_u64(answer.tenths), MaxPriorityFee)
    ELSE FallbackFee

\* Mutant of Build: a failed build request is issued a second time.
Build_retried(fee, answer) ==
    /\ trade.phase = "Building"
    /\ LET sent == [trade EXCEPT !.build_requests = @ + 1, !.fee_requests = @ + 1,
                                 !.fee_answer = fee,
                                 !.priority_fee = calculate_priority_fee(fee),
                                 !.answered = answer, !.built = answer]
       IN  IF answer = "ok"
           THEN trade' = [sent EXCEPT !.phase = "Signing"]
           ELSE IF trade.build_requests = 0
                THEN trade' = sent
                ELSE trade' = [sent EXCEPT !.phase = "Failed", !.error = answer,
                                           !.failed_in = "Building"]
    /\ UNCHANGED <<storeVars, drvVars, buyVars, evalVars, netVars, listVars>>

\* calculate_priority_fee, then the swap request (Jupiter) or the trade-local
\* request (PumpFun).  A 200 without a transaction fails right after the
\* response: "No transaction returned" (Jupiter), or the base64 decoding of
\* the body at the top of execute_transaction_b64 (PumpFun).
Build(fee, answer) ==
    /\ trade.phase = "Building"
    /\ LET sent == [trade EXCEPT !.build_requests = @ + 1, !.fee_requests = @ + 1,
                                 !.fee_answer = fee,
                                 !.priority_fee = calculate_priority_fee(fee),
                                 !.answered = answer, !.built = answer]
       IN  IF answer = "ok"
           THEN trade' = [sent EXCEPT !.phase = "Signing"]
           ELSE trade' = [sent EXCEPT !.phase = "Failed", !.error = answer,
                                      !.failed_in = "Building"]
    /\ UNCHANGED <<storeVars, drvVars, buyVars, evalVars, netVars, listVars>>

\* Mutant of Sign: the blockhash fetch has no timeout and the node never
\* answers.
Sign_hangs(answer) == FALSE

\* execute_transaction_b64: the blockhash fetch and the signature.  The
\* request body with its fee went into the build request; from here on the
\* pipeline holds the transaction only.
Sign(answer) ==
    /\ trade.phase = "Signing"
    /\ LET fetched == [trade EXCEPT !.blockhash_requests = @ + 1, !.answered = answer,
                                    !.fee_answer = NoTrade.fee_answer,
                                    !.priority_fee = NoTrade.priority_fee]
       IN  IF answer = "ok"
           THEN trade' = [fetched EXCEPT !.phase = "Broadcasting", !.attempt = 1,
                                         !.nonce = 1]
           ELSE trade' = [fetched EXCEPT !.phase = "Failed", !.error = answer,
                                         !.failed_in = "Signing"]
    /\ UNCHANGED <<storeVars, drvVars, buyVars, evalVars, netVars, listVars>>

\* Mutant of SendRetries: one iteration too many.
SendRetries_offByOne(attempt) == attempt <= MaxSendAttempts

\* Whether send_with_retry's loop runs the iteration after `attempt`.
SendRetries(attempt) == attempt < MaxSendAttempts

\* One iteration of send_with_retry: after the first attempt the blockhash is
\* fetched again and the transaction re-signed only if the fetch succeeds
\* (refetch), then send_and_confirm_transaction.
SendAttempt(refetch, answer) ==
    /\ trade.phase = "Broadcasting"
    /\ trade.attempt = 1 => refetch = "ok"
    /\ LET refetched == trade.attempt > 1
           nonce == IF refetched /\ refetch = "ok" THEN trade.nonce + 1 ELSE trade.nonce
           sent == [trade EXCEPT !.broadcasts = @ + 1,
                                 !.blockhash_requests = IF refetched THEN @ + 1 ELSE @,
                                 !.nonce = nonce,
                                 !.submitted = Append(@, nonce),
                                 !.answered = answer]
       IN  IF answer = "ok"
           THEN trade' = [sent EXCEPT
                            !.phase = "Confirmed",
                            !.signature = nonce,
                            !.tokens_received =
                                IF trade.kind = "buy_pumpfun"
                                THEN estimate_pumpfun_tokens(BuyLamports)
                                ELSE @]
           ELSE IF SendRetries(trade.attempt)
                THEN trade' = [sent EXCEPT !.phase = "SendSleep",
                                           !.last_error = KeepError(@, answer),
                                           !.delay = SendBackoff(trade.attempt),
                                           !.send_delays =
                                               Append(@, SendBackoff(trade.attempt))]
                ELSE trade' = [sent EXCEPT !.phase = "Failed",
                                           !.last_error = KeepError(@, answer),
                                           !.error = KeepError(trade.last_error, answer),
                                           !.context = "Transaction failed after 5 attempts",
                                           !.failed_in = "Broadcasting"]
    /\ UNCHANGED <<storeVars, drvVars, buyVars, evalVars, netVars, listVars>>

\* The sleep between two send attempts ends.
SendSleepDone ==
    /\ trade.phase = "SendSleep"
    /\ trade' = [trade EXCEPT !.phase = "Broadcasting", !.attempt = @ + 1]
    /\ UNCHANGED <<storeVars, drvVars, buyVars, evalVars, netVars, listVars>>

\* config.strategy of the buys followed under TradeSpec.
TradeStrategy == "ConservativeATH"

\* Mutant of RecordedPosition: the position keeps no fill data.
RecordedPosition_blank(token, strategy, current_price, tokens_received, signature) ==
    [token_address |-> token, entry_price |-> current_price, strategy |-> strategy,
     amount_tokens |-> 0, buy_signature |-> 0]

\* The Position initialize_position builds from the request, the fill price
\* and the platform call's pair.
RecordedPosition(token, strategy, current_price, tokens_received, signature) ==
    [token_address |-> token, entry_price |-> current_price, strategy |-> strategy,
     amount_tokens |-> tokens_received, buy_signature |-> signature]

\* Mutant of BuyRecords: initialize_position also runs after a failed buy.
BuyRecords_alsoFailed(kind, phase) ==
    kind \in {"buy_jupiter", "buy_pumpfun"} /\ phase \in {"Confirmed", "Failed"}

\* The Ok arm of buy_fast's match on the platform's result: the only caller
\* of initialize_position.
BuyRecords(kind, phase) ==
    kind \in {"buy_jupiter", "buy_pumpfun"} /\ phase = "Confirmed"

\* initialize_position of a confirmed buy, first block: the price lookup (0
\* when it fails) and the insert into the position store.  The request stays
\* in its phase; store_writes tells how far initialize_position has come.
TradeRecordPosition(answer) ==
    /\ BuyRecords(trade.kind, trade.phase)
    /\ trade.store_writes = 0
    /\ PositionsWritable
    /\ LET current_price == get_current_price(answer).value
       IN  /\ positions' = MapInsert(positions, EvalToken,
                                     RecordedPosition(EvalToken, TradeStrategy,
                                                      current_price,
                                                      trade.tokens_received,
                                                      trade.signature))
           /\ pending' = MapInsert(EmptyMap, EvalToken,
                                   NewTracker(TradeStrategy, current_price))
    /\ trade' = [trade EXCEPT !.store_writes = 1]
    /\ UNCHANGED <<ath_tracker, drvVars, bpc, buys, evalVars, netVars, listVars>>

\* initialize_position, second block: the insert into the tracker store.
TradeRecordTracker ==
    /\ trade.store_writes = 1
    /\ \E token \in DOMAIN pending :
          ath_tracker' = MapInsert(ath_tracker, token, pending[token])
    /\ pending' = EmptyMap
    /\ trade' = [trade EXCEPT !.store_writes = 2]
    /\ UNCHANGED <<positions, drvVars, bpc, buys, evalVars, netVars, listVars>>

\* The result is returned to the caller: a buy after initialize_position or
\* after its failure, a sell after sell_jupiter.
TradeReturn ==
    /\ \/ trade.phase \in {"Failed", "Detected"} /\ trade.store_writes # 1
       \/ trade.phase = "Confirmed"
             /\ (trade.kind = "sell_jupiter" \/ trade.store_writes = 2)
    /\ trade' = NoTrade
    /\ UNCHANGED <<storeVars, drvVars, buyVars, evalVars, netVars, listVars>>

\* What the caller of buy_fast or sell_position receives when the request has
\* ended: a TradeResult (buy_fast always; sell_position from the match on
\* sell_jupiter's result), a bare Err (sell_position before it calls
\* sell_jupiter: the balance lookup's `?` and "No tokens to sell"), or no
\* value at all when the request panicked.
TradeOutcome ==
    CASE trade.phase = "Panicked" -> "panic"
      [] trade.phase = "Failed" /\ trade.kind = "sell_jupiter"
            /\ trade.failed_in = "Validating" -> "Err"
      [] trade.phase = "Confirmed" /\ trade.kind # "sell_jupiter"
            /\ trade.store_writes < 2 -> "pending"
      [] trade.phase \in {"Failed", "Confirmed"} -> "TradeResult"
      [] OTHER -> "pending"

TradeNext ==
    \/ \E amount \in AmountClasses, address \in AddressClasses, log_info \in BOOLEAN :
          BuyFast(amount, address, log_info)
    \/ \E address \in AddressClasses, established \in BOOLEAN, probe \in ProbeAnswers,
          log_info \in BOOLEAN : DetectPlatform(address, established, probe, log_info)
    \/ \E kind \in TradeKinds, established \in BOOLEAN, probe \in ProbeAnswers :
          \E slippage_bps \in SlippageInputs :
             TradeStart(kind, established, probe, slippage_bps)
    \/ SellNoBalance
    \/ \E answer \in QuoteAnswers : QuoteAttempt(answer)
    \/ QuoteSleepDone
    \/ QuoteTimeout
    \/ \E fee \in FeeAnswers, answer \in BuildAnswers : Build(fee, answer)
    \/ \E answer \in CallAnswers : Sign(answer)
    \/ \E refetch \in CallAnswers, answer \in CallAnswers : SendAttempt(refetch, answer)
    \/ SendSleepDone
    \/ \E answer \in BuyAnswers : TradeRecordPosition(answer)
    \/ TradeRecordTracker
    \/ TradeReturn

TradeSpec == Init /\ [][TradeNext]_vars

----------------------------------------------------------------------------
(* LiveSpec: progress of a trade request and of a monitoring cycle *)

\* The buys followed under LiveSpec.
LiveBuys == 1

\* A trade request is in progress: started and not yet at its result.
TradeActive ==
    trade.phase \notin {"Idle", "Confirmed", "Failed", "Panicked", "Detected"}

\* monitor_positions is running.
MonitorRunning ==
    pc \in {"m_fetch", "m_eval", "m_check", "m_sell", "m_rm_pos", "m_rm_trk", "m_ret"}

\* A step of the trade request's pipeline, while the engine's loops are idle
\* and no engine-side buy has been recorded.
LiveTrade == buys = 0 /\ pc = "idle" /\ TradeNext

\* A step of the engine (buys, monitor, emergency and direct sells) with at
\* most LiveBuys buys, while no pipeline is followed.
LiveEngine ==
    /\ trade = NoTrade
    /\ buys = 0 => positions = EmptyMap /\ ath_tracker = EmptyMap
    /\ Next
    /\ buys' <= LiveBuys

\* Each behaviour follows trade requests through the pipeline or the engine
\* through its loops.
LiveNext == LiveTrade \/ LiveEngine

\* A step of a trade request in progress: every remote call of the pipeline
\* comes back (with an answer, an error or its timeout), every sleep ends.
TradeProgress == TradeActive /\ LiveTrade

\* A step of a running monitoring cycle: every price lookup and every sell
\* comes back, every lock is granted.
MonitorProgress == MonitorRunning /\ LiveEngine /\ (pc' # pc \/ idx' # idx)

\* The runtime keeps polling a request and a cycle that can make a step.
LiveSpec ==
    Init /\ [][LiveNext]_vars /\ WF_vars(TradeProgress) /\ WF_vars(MonitorProgress)

----------------------------------------------------------------------------
(* Claims about the stores: failed sells, liquidation, round trip, pairing *)

Keys(m) == DOMAIN m

\* The token the monitoring loop is working on.
CurrentToken == snapshot[idx].token_address

\* C1: when a sell attempted by the monitoring loop is not confirmed, the
\* token's Position and ATHTracker are still in their stores when
\* monitor_positions returns, and the loop cleans up only after a confirmed sell.
C1_FailedSellKeepsPosition ==
    /\ pc \in {"m_rm_pos", "m_rm_trk"} =>
          executed_sells[Len(executed_sells)].success
    /\ pc = "m_ret" /\ bpc = "idle" =>
          \A i \in 1..Len(executed_sells) :
              ~executed_sells[i].success =>
                  /\ executed_sells[i].token \in Keys(positions)
                  /\ executed_sells[i].token \in Keys(ath_tracker)

\* C2: when emergency_sell_all returns, every position whose sell failed is
\* still in the position store with its tracker, its TradeResult marked failed.
C2_EmergencyKeepsFailed ==
    pc = "e_ret" /\ bpc = "idle" =>
        \A i \in 1..Len(results) :
            ~results[i].success =>
                /\ results[i].token \in Keys(positions)
                /\ results[i].token \in Keys(ath_tracker)

\* C3: after a confirmed sell of a token, by the monitoring loop, by emergency
\* liquidation or by a direct sell_position, neither store holds the token
\* when the call returns.
C3_ConfirmedSellRemoves ==
    /\ pc \in {"s_ret", "e_ret"} /\ bpc = "idle" =>
          \A i \in 1..Len(results) :
              results[i].success =>
                  /\ results[i].token \notin Keys(positions)
                  /\ results[i].token \notin Keys(ath_tracker)
    /\ pc = "m_ret" /\ bpc = "idle" =>
          \A i \in 1..Len(executed_sells) :
              executed_sells[i].success =>
                  /\ executed_sells[i].token \notin Keys(positions)
                  /\ executed_sells[i].token \notin Keys(ath_tracker)

\* C4: in every state a reader can observe, the position store and the
\* tracker store hold the same tokens.
C4_StoresPaired == Keys(positions) = Keys(ath_tracker)

----------------------------------------------------------------------------
(* Claims about the watermark and the evaluator (EvalSpec) *)

EvalOpen == EvalToken \in DOMAIN positions /\ EvalToken \in DOMAIN ath_tracker

\* C5: the tracker's ath_price is always >= its entry_price, never decreases
\* from one state to the next, and after an observation p it is the greater
\* of the previous ath_price and p.
C5_AthMonotone ==
    /\ [](\A t \in DOMAIN ath_tracker :
              ath_tracker[t].ath_price >= ath_tracker[t].entry_price)
    /\ [][\A t \in DOMAIN ath_tracker \cap DOMAIN ath_tracker' :
              /\ ath_tracker'[t].ath_price >= ath_tracker[t].ath_price
              /\ observed' >= 0 =>
                    ath_tracker'[t].ath_price = Max(ath_tracker[t].ath_price, observed')
         ]_vars

\* A price below the watermark was observed after the watermark rose above
\* the entry price.
C5_Witness ==
    /\ EvalOpen
    /\ observed >= 0
    /\ ath_tracker[EvalToken].ath_price > observed
    /\ ath_tracker[EvalToken].ath_price > ath_tracker[EvalToken].entry_price

\* The decisions of evaluate_exit_strategy along a path of observations, and
\* the tracker store after it.
RECURSIVE RunPath(_, _, _)
RunPath(position, trackers, prices) ==
    IF prices = <<>>
    THEN [decisions |-> <<>>, trackers |-> trackers]
    ELSE LET updated == UpdateTrackers(trackers, position.token_address, Head(prices))
             decision == ExitDecision(position, updated, Head(prices))
             rest == RunPath(position, updated, Tail(prices))
         IN  [decisions |-> <<decision>> \o rest.decisions, trackers |-> rest.trackers]

\* A position bought at a price, with its tracker, and the path run on it.
RunFrom(strategy, entry_price, prices) ==
    RunPath(NewPosition(EvalToken, strategy, entry_price),
            MapInsert(EmptyMap, EvalToken, NewTracker(strategy, entry_price)),
            prices)

\* The exit rule of the trailing-watermark strategies as the specification
\* states it, in exact arithmetic: profit >= min_profit and pullback >= pullback
\* threshold, a ratio over a zero price counting as 0.
SpecAthExit(min_profit, pullback, entry_price, ath_price, current_price) ==
    /\ IF entry_price = 0
       THEN 0 >= min_profit
       ELSE 100 * (current_price - entry_price) >= min_profit * entry_price
    /\ IF ath_price = 0
       THEN 0 >= pullback
       ELSE 100 * (ath_price - current_price) >= pullback * ath_price

\* C6: a ConservativeATH (8 / 3) or AggressiveATH (12 / 5) position exits on
\* an observation if and only if both the profit and the pullback threshold
\* hold for it; the path 1.00 -> 1.10 -> 1.09 -> 1.00 -> 1.03 -> 1.00 under
\* ConservativeATH never exits and leaves the watermark at 1.10.
C6_AthExitIffBoth ==
    /\ (EvalOpen /\ observed >= 0 /\ IsATH(positions[EvalToken].strategy)) =>
          (should_sell <=>
              IF positions[EvalToken].strategy = "ConservativeATH"
              THEN SpecAthExit(3, 8, positions[EvalToken].entry_price,
                               ath_tracker[EvalToken].ath_price, observed)
              ELSE SpecAthExit(5, 12, positions[EvalToken].entry_price,
                               ath_tracker[EvalToken].ath_price, observed))
    /\ LET run == RunFrom("ConservativeATH", 100, <<110, 109, 100, 103, 100>>)
       IN  /\ run.decisions = <<FALSE, FALSE, FALSE, FALSE, FALSE>>
           /\ run.trackers[EvalToken].ath_price = 110
    /\ RunFrom("ConservativeATH", 100, <<112, 103>>).decisions = <<FALSE, TRUE>>
    /\ RunFrom("ConservativeATH", 100, <<112, 102>>).decisions = <<FALSE, FALSE>>

\* A ConservativeATH position exits exactly at the 8% pullback (25 -> 23).
C6_Witness ==
    /\ EvalOpen
    /\ positions[EvalToken].strategy = "ConservativeATH"
    /\ ath_tracker[EvalToken].ath_price = 25
    /\ observed = 23
    /\ should_sell

\* The exit rule of the fixed-threshold strategies as the specification
\* states it, in exact arithmetic.
SpecFixedExit(take_profit, stop_loss, entry_price, current_price) ==
    \/ 100 * (current_price - entry_price) >= take_profit * entry_price
    \/ 100 * (current_price - entry_price) <= stop_loss * entry_price

\* C7: a fixed-threshold position with a non-zero entry price exits if and
\* only if the profit percent is >= the take-profit bound or <= the stop-loss
\* bound (Conservative +15 / -5, Aggressive +50 / -15), whatever was observed
\* before; with entry 1.00, Conservative exits at 1.16, 1.15, 0.94 and 0.95 and
\* holds at 1.14 and 0.96.
C7_FixedExitAtBounds ==
    /\ (EvalOpen /\ observed >= 0 /\ ~IsATH(positions[EvalToken].strategy)
            /\ positions[EvalToken].entry_price # 0) =>
          (should_sell <=>
              IF positions[EvalToken].strategy = "Conservative"
              THEN SpecFixedExit(15, -5, positions[EvalToken].entry_price, observed)
              ELSE SpecFixedExit(50, -15, positions[EvalToken].entry_price, observed))
    /\ RunFrom("Conservative", 100, <<116>>).decisions = <<TRUE>>
    /\ RunFrom("Conservative", 100, <<94>>).decisions = <<TRUE>>
    /\ RunFrom("Conservative", 100, <<115, 114, 95, 96>>).decisions
          = <<TRUE, FALSE, TRUE, FALSE>>
    /\ RunFrom("Aggressive", 100, <<150, 149, 85, 86>>).decisions
          = <<TRUE, FALSE, TRUE, FALSE>>

\* A Conservative position exits exactly at +15% (20 -> 23) after a lower price.
C7_Witness ==
    /\ EvalOpen
    /\ positions[EvalToken].strategy = "Conservative"
    /\ positions[EvalToken].entry_price = 20
    /\ ath_tracker[EvalToken].ath_price = 23
    /\ observed = 23
    /\ should_sell

----------------------------------------------------------------------------
(* Claims about failed price lookups *)

\* A step of the monitoring loop (not of a concurrent buy).
MonitorStep == pc' # pc \/ idx' # idx

\* C8: a token whose price lookup failed in this cycle is excluded from the
\* evaluation: its tracker is not modified and no exit is triggered for it.
C8_FailedLookupExcluded ==
    [][(pc = "m_eval" /\ MonitorStep /\ CurrentToken \in lookup_failed) =>
            /\ ath_tracker' = ath_tracker
            /\ pc' \notin {"m_check", "m_sell"}
      ]_vars

\* The cycle's price batch had the lookup for token x come back with answer.
AltUpdates(x, answer) ==
    LET price == get_current_price(answer)
    IN  IF price.ok
        THEN MapInsert(price_updates, x, price.value)
        ELSE MapRemove(price_updates, x)

SnapshotTokens == {snapshot[i].token_address : i \in 1..Len(snapshot)}

\* C9: what the cycle does with a position Y (whether it is evaluated, its
\* tracker update, its exit decision and whether its sell is attempted) is
\* the same whatever the lookup for another token X came back with; working on
\* one position changes no other token's tracker, and the loop goes on to the
\* next position of the snapshot whatever happened to this one.
C9_OtherLookupIrrelevant ==
    /\ [](pc \in {"m_eval", "m_check"} =>
            \A x \in SnapshotTokens \ {CurrentToken}, answer \in OracleAnswers :
                IF pc = "m_eval"
                THEN MonitorEvalOutcome(AltUpdates(x, answer), snapshot[idx], ath_tracker)
                        = MonitorEvalOutcome(price_updates, snapshot[idx], ath_tracker)
                ELSE MonitorCheckOutcome(AltUpdates(x, answer), snapshot[idx], ath_tracker)
                        = MonitorCheckOutcome(price_updates, snapshot[idx], ath_tracker))
    /\ [][(pc \in {"m_eval", "m_check", "m_sell", "m_rm_pos", "m_rm_trk"} /\ MonitorStep) =>
            /\ \A t \in DOMAIN ath_tracker \ {CurrentToken} :
                  t \in DOMAIN ath_tracker' /\ ath_tracker'[t] = ath_tracker[t]
            /\ idx' # idx =>
                  IF idx < Len(snapshot)
                  THEN pc' = "m_eval" /\ idx' = idx + 1
                  ELSE pc' = "m_ret"
         ]_vars

\* The second position of the snapshot is sold on its own price while the
\* lookup for the first one had failed.
C9_Witness ==
    /\ pc = "m_sell"
    /\ Len(snapshot) = 2
    /\ idx = 2
    /\ snapshot[1].token_address \in lookup_failed
    /\ CurrentToken \notin lookup_failed

----------------------------------------------------------------------------
(* Claims about the order execution pipeline (TradeSpec) *)

\* C10: one trade request makes at most 5 broadcast attempts and at most 3
\* quote requests, and at the ceiling it has ended: no attempt follows.
C10_RetryCeilings ==
    /\ trade.broadcasts <= 5
    /\ trade.quote_requests <= 3
    /\ trade.broadcasts = 5 => trade.phase \in {"Confirmed", "Failed"}
    /\ trade.quote_requests = 3 => trade.phase \notin {"Quoting", "QuoteSleep"}

\* A buy whose third quote succeeded fails after five broadcast attempts.
C10_Witness ==
    /\ trade.kind = "buy_jupiter"
    /\ trade.phase = "Failed"
    /\ trade.quote_requests = 3
    /\ trade.broadcasts = 5

----------------------------------------------------------------------------
(* Claims about the external calls of a cycle *)

\* C19: within one monitoring cycle and within one emergency_sell_all call
\* the sells run one at a time: at most one sell is in flight, it is the sell
\* of the position the loop is at, and none is in flight once the loop has
\* moved past the sell.
C19_SellsOneAtATime ==
    /\ Cardinality(in_flight) <= 1
    /\ pc = "m_sell" => in_flight = {snapshot[idx].token_address}
    /\ pc = "e_sell" => in_flight = {snapshot[idx]}
    /\ pc \notin {"m_sell", "e_sell", "s_sell"} => in_flight = {}

\* The second exit of a monitoring cycle is in flight after the first one
\* has returned.
C19_Witness ==
    /\ pc = "m_sell"
    /\ idx = 2
    /\ Len(executed_sells) = 1
    /\ in_flight = {snapshot[2].token_address}

\* How many times token t was looked up in this cycle.
LookupCount(t) == Cardinality({i \in 1..Len(lookups) : lookups[i] = t})

\* C20: a monitoring cycle issues exactly one price lookup for each token of
\* its snapshot and none for any other token; evaluating and selling add no
\* lookup; a cycle that found no position issues no external call and
\* returns an empty list.
C20_OneLookupPerToken ==
    /\ pc = "m_fetch" => lookups = [i \in 1..(idx - 1) |-> snapshot[i].token_address]
    /\ pc \in {"m_eval", "m_check", "m_sell", "m_rm_pos", "m_rm_trk", "m_ret"} =>
          /\ \A t \in Tokens :
                LookupCount(t) = IF \E i \in 1..Len(snapshot) : snapshot[i].token_address = t
                                 THEN 1
                                 ELSE 0
          /\ snapshot = <<>> => lookups = <<>> /\ in_flight = {} /\ executed_sells = <<>>

\* A cycle over two positions has executed an exit and is about to return.
C20_Witness ==
    /\ pc = "m_ret"
    /\ Len(snapshot) = 2
    /\ Len(lookups) = 2
    /\ Len(executed_sells) >= 1

----------------------------------------------------------------------------
(* Claims about locks (LockSpec) *)

\* C18: no operation holds a store lock while one of its network calls is
\* outstanding: whenever the price lookup of list_positions or
\* get_performance_stats is in flight that task holds no lock, so the write
\* lock of the position store can be taken.
C18_NoLockAcrossCall ==
    lister.in_call => (lister.holds = {} /\ PositionsWritable)

----------------------------------------------------------------------------
(* Claims about errors and phases of the pipeline (TradeSpec) *)

\* C11: when all quote attempts or all broadcast attempts of a trade have
\* failed, the error returned to the caller is the underlying error of the
\* last failed attempt.
C11_LastErrorSurfaced ==
    /\ (trade.phase = "Failed" /\ trade.failed_in = "Quoting"
            /\ trade.kind = "buy_jupiter" /\ trade.quote_requests = 3
            /\ trade.answered \in {"invalid", "timeout", "http_error"}) =>
          trade.error = trade.answered
    /\ (trade.phase = "Failed" /\ trade.failed_in = "Broadcasting") =>
          /\ trade.broadcasts = 5
          /\ trade.error = trade.answered
          /\ trade.error \in {"timeout", "http_error"}

\* All five broadcast attempts failed, the last one with a time-out.
C11_Witness ==
    /\ trade.phase = "Failed"
    /\ trade.failed_in = "Broadcasting"
    /\ trade.broadcasts = 5
    /\ trade.answered = "timeout"
    /\ trade.error = "timeout"

\* C12: right after a quote response that is structurally invalid (no
\* output-amount field) the trade is Failed: no further quote request is
\* issued and the trade does not go on to Building.
C12_InvalidQuoteFatal ==
    trade.answered = "invalid" => trade.phase = "Failed"

\* C13: in the broadcast retry loop no attempt resubmits the transaction
\* signed over a nonce that an earlier attempt used.
C13_FreshNonceEachAttempt ==
    \A i, j \in 1..Len(trade.submitted) :
        i # j => trade.submitted[i] # trade.submitted[j]

\* C14: a buy request whose amount is out of bounds or whose address is not
\* well-formed is answered with a failed TradeResult carrying a validation
\* error, and no network call is made for it.
C14_InvalidBuyRejected ==
    (trade.kind = "buy_fast" /\ (trade.amount # "in_range" \/ trade.address # "valid")) =>
        /\ trade.phase = "Failed"
        /\ trade.failed_in = "Validating"
        /\ trade.error \in {"amount_out_of_bounds", "invalid_token_address"}
        /\ NetworkCalls = 0

\* C15: on every venue a transaction is built only after a quote was asked
\* for and accepted for that request, broadcast only after it was signed, and
\* confirmed only from Broadcasting.
C15_PhaseOrder ==
    /\ trade.phase \in {"Building", "Signing", "Broadcasting", "SendSleep", "Confirmed"} =>
          trade.quote_requests >= 1
    /\ trade.phase \in {"Signing", "Broadcasting", "SendSleep", "Confirmed"} =>
          trade.build_requests >= 1
    /\ trade.phase \in {"Broadcasting", "SendSleep", "Confirmed"} =>
          trade.blockhash_requests >= 1
    /\ trade.phase = "Confirmed" => trade.broadcasts >= 1

\* C16: exactly one build request is issued per trade request, and when it
\* fails (error, non-200 status or no transaction payload) the trade is Failed
\* with no blockhash fetch, no signing and no broadcast attempt.
C16_BuildNotRetried ==
    /\ trade.build_requests <= 1
    /\ trade.built \notin {"none", "ok"} =>
          /\ trade.phase = "Failed"
          /\ trade.failed_in = "Building"
          /\ trade.build_requests = 1
          /\ trade.blockhash_requests = 0
          /\ trade.broadcasts = 0

\* The swap request of a Jupiter buy came back without a transaction.
C16_Witness ==
    /\ trade.kind = "buy_jupiter"
    /\ trade.phase = "Failed"
    /\ trade.built = "no_payload"
    /\ trade.build_requests = 1

\* C17: a trade, buy or sell, fails in Quoting on a transient remote failure
\* only after the three quote attempts are exhausted.
C17_QuoteFailureRetried ==
    (trade.phase = "Failed" /\ trade.failed_in = "Quoting"
        /\ trade.error \in {"timeout", "http_error"}) =>
        trade.quote_requests = 3

\* The phases of a monitoring cycle that follow its price batch.
AfterBatch == pc \in {"m_eval", "m_check", "m_sell", "m_rm_pos", "m_rm_trk"}

\* C21: within one monitoring cycle every price lookup of the batch completes
\* before the first strategy evaluation (from the evaluation loop on, one lookup
\* per snapshot position has been made, in snapshot order, and the batch holds
\* only prices of this cycle), and every evaluation feeds the tracker the price
\* the cycle's own batch holds for the token.
C21_BatchBeforeEvaluation ==
    /\ [](/\ pc = "idle" => price_updates = EmptyMap /\ lookups = <<>>
          /\ pc = "m_fetch" => DOMAIN price_updates \subseteq
                                    {lookups[i] : i \in 1..Len(lookups)}
          /\ AfterBatch =>
                /\ lookups = [i \in 1..Len(snapshot) |-> snapshot[i].token_address]
                /\ DOMAIN price_updates \cup lookup_failed = SnapshotTokens)
    /\ [][(pc = "m_eval" /\ MonitorStep /\ CurrentToken \in DOMAIN ath_tracker
            /\ CurrentToken \in DOMAIN price_updates)
           => ath_tracker'[CurrentToken].last_price = price_updates[CurrentToken]]_vars

\* C21 witness: the evaluation loop is at the second position of a cycle whose
\* batch looked up two tokens.
C21_Witness ==
    /\ pc = "m_eval" /\ idx = 2 /\ Len(lookups) = 2
    /\ CurrentToken \in DOMAIN price_updates /\ CurrentToken \in DOMAIN ath_tracker

\* C26: a position or tracker that is open for a token is never replaced by a
\* later buy of the same token: as long as the token stays open, its Position
\* and the entry data of its ATHTracker are the ones recorded when it was opened.
C26_OpenPositionKept ==
    [][/\ \A t \in DOMAIN positions \cap DOMAIN positions' :
              positions'[t] = positions[t]
       /\ \A t \in DOMAIN ath_tracker \cap DOMAIN ath_tracker' :
              /\ ath_tracker'[t].entry_price = ath_tracker[t].entry_price
              /\ ath_tracker'[t].pullback_percent = ath_tracker[t].pullback_percent]_vars

\* Removing token t from a store leaves every other entry as it was, changes
\* nothing when t is absent, and does nothing more when done a second time.
RemoveIsClean(store, t) ==
    LET once == MapRemove(store, t)
    IN  /\ DOMAIN once = DOMAIN store \ {t}
        /\ \A u \in DOMAIN once : once[u] = store[u]
        /\ t \notin DOMAIN store => once = store
        /\ MapRemove(once, t) = once

\* C27: removing a token that is not in the position store or the tracker store
\* is a no-op that leaves every other entry unchanged, and removing the same
\* token twice is the same as removing it once; the monitoring loop's tracker
\* removal changes nothing when the token has no tracker.
C27_RemoveAbsentNoOp ==
    /\ [](\A t \in Tokens : RemoveIsClean(positions, t) /\ RemoveIsClean(ath_tracker, t))
    /\ [][(pc = "m_rm_trk" /\ MonitorStep /\ CurrentToken \notin DOMAIN ath_tracker)
           => ath_tracker' = ath_tracker]_vars

\* C27 witness: the loop is about to remove the tracker of a token that has
\* none, while the tracker store holds another token's tracker.
C27_Witness ==
    /\ pc = "m_rm_trk"
    /\ CurrentToken \notin DOMAIN ath_tracker
    /\ ath_tracker # EmptyMap

\* C22: within one evaluation the watermark is raised before the pullback is
\* computed: an observation above the recorded all-time high becomes the
\* watermark, the pullback computed in that evaluation is 0, and a trailing
\* strategy does not exit on it.
C22_NewAthNoPullback ==
    [][(EvalOpen /\ IsATH(positions[EvalToken].strategy)
          /\ observed' > ath_tracker[EvalToken].ath_price)
       => LET run == evaluate_exit_strategy(positions[EvalToken], ath_tracker, observed')
          IN  /\ ath_tracker' = run.trackers
              /\ ath_tracker'[EvalToken].ath_price = observed'
              /\ run.pullback = 0
              /\ ~run.should_sell
              /\ ~should_sell']_vars

\* C22 witness: a trailing position whose last observation set a new all-time
\* high above the entry price by more than the strategy's minimum profit.
C22_Witness ==
    /\ EvalOpen /\ IsATH(positions[EvalToken].strategy)
    /\ observed = ath_tracker[EvalToken].ath_price
    /\ positions[EvalToken].entry_price > 0
    /\ calculate_profit_percent(positions[EvalToken].entry_price, observed)
          >= ath_tracker[EvalToken].min_profit_percent

\* The prices an evaluation may be handed, zero included.
EvalPrices == 0..MaxPrice

\* C23: whatever the entry price, watermark and current price are, zero
\* included, the exit evaluation and the status report yield a value: the
\* evaluation a yes or no, the report its figures; the profit is 0 when the
\* entry price is 0 and the pullback is 0 when the watermark is 0.
C23_ZeroPricesHandled ==
    EvalOpen =>
        LET position == positions[EvalToken]
            tracker == ath_tracker[EvalToken]
            status == get_ath_status(ath_tracker, EvalToken)
        IN  /\ status.some
            /\ tracker.entry_price = 0 => status.profit_percent = 0
            /\ tracker.ath_price = 0 => status.pullback_from_ath = 0
            /\ \A p \in EvalPrices :
                  LET run == evaluate_exit_strategy(position, ath_tracker, p)
                  IN  /\ run.should_sell \in BOOLEAN
                      /\ position.entry_price = 0
                            => calculate_profit_percent(position.entry_price, p) = 0
                      /\ run.trackers[EvalToken].ath_price = 0 => run.pullback = 0
                      /\ position.entry_price = 0 => ~run.should_sell
            /\ observed >= 0 =>
                  should_sell = ExitDecision(position, ath_tracker, observed)

\* C23 witness: a position bought while the price lookup failed (entry price
\* and watermark 0) has been evaluated at price 0.
C23_Witness ==
    /\ EvalOpen
    /\ positions[EvalToken].entry_price = 0
    /\ ath_tracker[EvalToken].ath_price = 0
    /\ observed = 0

\* C24: every trade attempt, buy or sell, whatever its input (a zero balance
\* and a malformed identifier included), ends by handing the caller a
\* TradeResult: never a bare error, never a panic.
C24_AlwaysTradeResult ==
    trade.phase \in {"Failed", "Confirmed", "Panicked"} => TradeOutcome = "TradeResult"

\* detect_best_platform has been called by the current request and has ended,
\* with a platform or in a panic.
Detected ==
    \/ trade.kind \in {"detect", "buy_jupiter", "buy_pumpfun"}
          /\ trade.phase \notin {"Idle", "Detecting"}

\* C28: for an established token (SOL, USDC, USDT, BONK, JUP)
\* detect_best_platform returns Jupiter without issuing a probe, whatever
\* pump.fun would answer for it.
C28_EstablishedToJupiter ==
    /\ \A probe \in ProbeAnswers :
          /\ detect_best_platform(TRUE, probe) = [platform |-> "Jupiter", probes |-> 0]
          /\ ~is_pumpfun_token(TRUE, probe)
    /\ (Detected /\ trade.established) =>
          /\ trade.platform = "Jupiter"
          /\ trade.probes = 0
          /\ trade.kind # "buy_pumpfun"
          /\ trade.phase # "Panicked"

\* C28 witness: an established token for which pump.fun would answer 200 has
\* been routed.
C28_Witness ==
    /\ Detected /\ trade.established
    /\ trade.would_answer = "200"
    /\ trade.platform = "Jupiter"

\* C29: for a token that is not established detect_best_platform issues
\* exactly one probe and returns PumpFun if and only if the probe answers 200,
\* and Jupiter for every other answer, error or timeout; it never returns
\* Raydium.
C29_ProbeDecides ==
    (Detected /\ ~trade.established) =>
        /\ trade.probes = 1
        /\ trade.platform \in {"PumpFun", "Jupiter"}
        /\ trade.platform = "PumpFun" <=> trade.would_answer = "200"

\* The fee estimator has answered for the current request.
FeeAnswered == trade.fee_answer.kind # "none"

\* C30, as stated: the fee used is never above the maximum of 200000, it is
\* min(f, max) when the estimator answers f, and the fallback of 150000 when
\* the estimator fails or returns no estimate.
C30_FeeIsMinOfEstimate ==
    FeeAnswered =>
        /\ trade.priority_fee <= MaxPriorityFee
        /\ trade.fee_answer.kind = "estimate" =>
              trade.priority_fee * FeeScale
                  = Min(trade.fee_answer.tenths, MaxPriorityFee * FeeScale)
        /\ trade.fee_answer.kind # "estimate" => trade.priority_fee = FallbackFee

\* C30, amended: the fee used is a whole number between 0 and the maximum of
\* 200000; when the estimator answers f it is min(whole part of f, max), with
\* 0 for a negative f; when the estimator fails or returns no estimate it is
\* the fallback of 150000, which is below the maximum.
C30_FeeCapped ==
    /\ FallbackFee <= MaxPriorityFee
    /\ FeeAnswered =>
          /\ trade.priority_fee >= 0
          /\ trade.priority_fee <= MaxPriorityFee
          /\ trade.fee_answer.kind = "estimate" =>
                LET f == trade.fee_answer.tenths
                IN  /\ f < 0 => trade.priority_fee = 0
                    /\ f >= 0 =>
                          /\ trade.priority_fee * FeeScale <= f
                          /\ \/ trade.priority_fee = MaxPriorityFee
                             \/ (trade.priority_fee + 1) * FeeScale > f
          /\ trade.fee_answer.kind # "estimate" => trade.priority_fee = FallbackFee

\* C30 witness: the estimator answered above the maximum and the request was
\* built with the maximum.
C30_Witness ==
    /\ trade.fee_answer.kind = "estimate"
    /\ trade.fee_answer.tenths > MaxPriorityFee * FeeScale
    /\ trade.priority_fee = MaxPriorityFee
    /\ trade.build_requests = 1

\* The current request is a buy that went through buy_fast's validations.
IsBuy == trade.kind \in {"buy_jupiter", "buy_pumpfun"}

\* C25: a Position and its ATHTracker are created only after the buy's
\* broadcast has been confirmed: every change of either store is made by a buy
\* whose broadcast was confirmed, and a buy that has failed, in whatever phase,
\* has written to neither store and ends with its error as the result.
C25_RecordOnlyAfterConfirm ==
    /\ []((trade.phase = "Failed" /\ trade.kind \in {"buy_fast", "buy_jupiter", "buy_pumpfun"})
            => /\ trade.store_writes = 0
               /\ trade.error # "none"
               /\ TradeOutcome = "TradeResult")
    /\ [](trade.store_writes > 0 =>
            /\ IsBuy /\ trade.phase = "Confirmed" /\ trade.answered = "ok"
            /\ trade.broadcasts >= 1)
    /\ [][(positions' # positions \/ ath_tracker' # ath_tracker)
           => /\ IsBuy /\ trade.phase = "Confirmed"
              /\ trade'.store_writes = trade.store_writes + 1]_vars
    /\ [][(trade'.phase = "Failed" /\ trade.phase # "Failed")
           => positions' = positions /\ ath_tracker' = ath_tracker]_vars

\* C25 witness: a buy failed in its last phase, after five broadcasts, while
\* the stores hold the position of an earlier buy.
C25_Witness ==
    /\ IsBuy /\ trade.phase = "Failed" /\ trade.failed_in = "Broadcasting"
    /\ trade.store_writes = 0
    /\ EvalToken \in DOMAIN positions /\ EvalToken \in DOMAIN ath_tracker

\* C31: the delay after failed quote attempt k is 500 * k ms (500, 1000) and
\* after failed broadcast attempt k it is 500 * 2^(k-1) ms (500, 1000, 2000,
\* 4000); a successful attempt is followed by no delay, and neither loop
\* sleeps after its final failed attempt.
C31_BackoffDelays ==
    /\ \E n \in 0..2 : trade.quote_delays = SubSeq(<<500, 1000>>, 1, n)
    /\ \E n \in 0..4 : trade.send_delays = SubSeq(<<500, 1000, 2000, 4000>>, 1, n)
    /\ trade.phase = "QuoteSleep" =>
          /\ trade.answered # "ok"
          /\ Len(trade.quote_delays) = trade.quote_requests
          /\ trade.delay = 500 * trade.quote_requests
    /\ trade.phase = "SendSleep" =>
          /\ trade.answered # "ok"
          /\ Len(trade.send_delays) = trade.broadcasts
          /\ trade.delay = trade.send_delays[trade.broadcasts]
    /\ trade.phase = "Quoting" =>
          \/ Len(trade.quote_delays) = trade.quote_requests
          \/ trade.kind = "sell_jupiter"
    /\ (trade.quote_requests > 0 /\ trade.phase \notin {"Quoting", "QuoteSleep"}) =>
          \/ Len(trade.quote_delays) = trade.quote_requests - 1
          \/ trade.error = "elapsed" /\ Len(trade.quote_delays) = trade.quote_requests
    /\ trade.kind = "sell_jupiter" => trade.quote_delays = <<>>
    /\ trade.phase = "Broadcasting" => Len(trade.send_delays) = trade.broadcasts
    /\ (trade.broadcasts > 0 /\ trade.phase \notin {"Broadcasting", "SendSleep"}) =>
          Len(trade.send_delays) = trade.broadcasts - 1
    /\ (trade.phase = "Failed" /\ trade.failed_in = "Broadcasting") =>
          trade.send_delays = <<500, 1000, 2000, 4000>>

\* C31 witness: a buy failed after three quote attempts' worth of retries and
\* five broadcasts.
C31_Witness ==
    /\ trade.phase = "Failed" /\ trade.failed_in = "Broadcasting"
    /\ trade.quote_delays = <<500, 1000>>
    /\ trade.send_delays = <<500, 1000, 2000, 4000>>

\* C32: every trade request in progress eventually reaches Confirmed or
\* Failed, and every running monitoring cycle eventually completes, whatever
\* the external calls come back with, their timeouts included; and the
\* quoting phase's own timeout can end the phase Failed at any attempt.
C32_AlwaysTerminates ==
    /\ TradeActive ~> trade.phase \in {"Confirmed", "Failed"}
    /\ MonitorRunning ~> pc = "idle"
    /\ [](trade.error = "elapsed" =>
            trade.phase = "Failed" /\ trade.failed_in = "Quoting")

\* C32 witness: the quoting phase's timeout fired after the first quote
\* request timed out, with two retries left.
C32_Witness ==
    /\ trade.phase = "Failed" /\ trade.error = "elapsed"
    /\ trade.quote_requests = 1 /\ trade.answered = "timeout"

\* Trackers that differ from tracker in thresholds and watermark only.
Retuned(tracker) ==
    {[tracker EXCEPT !.pullback_percent = a, !.min_profit_percent = b, !.ath_price = w] :
        a \in {0, DecFrom(100)}, b \in {0, DecFrom(100)}, w \in {0, MaxPrice}}

\* C33: a tracker's pullback_percent and min_profit_percent are the ones of
\* its strategy (8 and 3 for ConservativeATH, 12 and 5 for AggressiveATH) from
\* creation on and no price refresh changes them; and the exit decision of a
\* Conservative or Aggressive position is a function of its entry price and
\* the current price alone: it is the same for every value of the tracker's
\* thresholds and watermark, and without a tracker.
C33_ThresholdsFixed ==
    EvalOpen =>
        LET position == positions[EvalToken]
            tracker == ath_tracker[EvalToken]
            created == NewTracker(position.strategy, position.entry_price)
        IN  /\ position.strategy = "ConservativeATH" =>
                  /\ tracker.pullback_percent = 8 * DecScale
                  /\ tracker.min_profit_percent = 3 * DecScale
            /\ position.strategy = "AggressiveATH" =>
                  /\ tracker.pullback_percent = 12 * DecScale
                  /\ tracker.min_profit_percent = 5 * DecScale
            /\ tracker.pullback_percent = created.pullback_percent
            /\ tracker.min_profit_percent = created.min_profit_percent
            /\ ~IsATH(position.strategy) =>
                  \A p \in EvalPrices :
                      LET here == evaluate_exit_strategy(position, ath_tracker, p).should_sell
                      IN  /\ here = evaluate_exit_strategy(position, EmptyMap, p).should_sell
                          /\ \A other \in Retuned(tracker) :
                                here = evaluate_exit_strategy(
                                           position,
                                           [ath_tracker EXCEPT ![EvalToken] = other],
                                           p).should_sell

\* C33 witness: a Conservative position was told to exit at a price at which
\* its own tracker, read as a trailing one, would not exit.
C33_Witness ==
    /\ EvalOpen /\ positions[EvalToken].strategy = "Conservative"
    /\ observed >= 0 /\ should_sell
    /\ ath_tracker[EvalToken].last_price = observed
    /\ ~check_ath_pullback_exit(ath_tracker, EvalToken, observed)

\* buy_fast is about to return its successful TradeResult.
BuyReturning == IsBuy /\ trade.phase = "Confirmed" /\ trade.store_writes = 2

\* C34: when buy_fast returns success for a token, the position store holds
\* a Position for it with the amount, the signature and the strategy of the
\* returned result and the request, and the tracker store holds a tracker
\* whose entry price, watermark and last price are the Position's entry price.
C34_PositionMatchesResult ==
    BuyReturning =>
        /\ EvalToken \in DOMAIN positions /\ EvalToken \in DOMAIN ath_tracker
        /\ LET position == positions[EvalToken]
               tracker == ath_tracker[EvalToken]
           IN  /\ position.token_address = EvalToken
               /\ position.amount_tokens = trade.tokens_received
               /\ position.amount_tokens =
                     (IF trade.kind = "buy_pumpfun"
                      THEN estimate_pumpfun_tokens(BuyLamports)
                      ELSE QuotedTokens)
               /\ position.buy_signature = trade.signature
               /\ position.buy_signature = trade.submitted[Len(trade.submitted)]
               /\ position.strategy = TradeStrategy
               /\ tracker.entry_price = position.entry_price
               /\ tracker.ath_price = position.entry_price
               /\ tracker.last_price = position.entry_price

\* C34 witness: a Jupiter buy confirmed at its third broadcast is returning
\* while its position holds a fill price.
C34_Witness ==
    /\ BuyReturning /\ trade.kind = "buy_jupiter" /\ trade.broadcasts = 3
    /\ EvalToken \in DOMAIN positions
    /\ positions[EvalToken].entry_price > 0

\* Some rise followed by some fall makes the evaluator return exit for the
\* position, at the first or at the second observation.
CanExit(position, trackers) ==
    \E rise, fall \in EvalPrices :
        LET first == evaluate_exit_strategy(position, trackers, rise)
        IN  \/ first.should_sell
            \/ evaluate_exit_strategy(position, first.trackers, fall).should_sell

\* C35: a position created by a confirmed buy whose fill-time price lookup
\* failed can still be exited by the strategy engine: some price observations
\* make the evaluator return exit.
C35_ZeroEntryCanExit ==
    (EvalOpen /\ positions[EvalToken].entry_price = 0)
        => CanExit(positions[EvalToken], ath_tracker)

\* C36: the clean-up of a monitoring cycle deletes only the position the cycle
\* snapshotted and sold: a Position that a buy confirmed during the cycle stored
\* under the same token is not deleted by it.
C36_CleanupSparesNewPosition ==
    [][(pc = "m_rm_pos" /\ pc' = "m_rm_trk")
          => \A t \in DOMAIN positions \ DOMAIN positions' :
                positions[t] = snapshot[idx]]_vars

\* The tokens emergency_sell_all snapshotted.
Snapshotted == {snapshot[i] : i \in 1..Len(snapshot)}

\* C37: emergency_sell_all removes only positions for which it attempted a
\* sell: a position created after its snapshot survives the clean-up.
C37_EmergencyRemovesOnlySold ==
    [][(pc = "e_clr_pos" /\ pc' = "e_clr_trk")
          => (DOMAIN positions \ DOMAIN positions') \subseteq Snapshotted]_vars

\* C38: every description monitor_positions returns is for an exit whose sell
\* was confirmed; a triggered exit whose sell failed contributes none.
C38_DescriptionsAreConfirmed ==
    \A i \in 1..Len(executed_sells) : executed_sells[i].success

\* C39: when the sell loop of emergency_sell_all is over, the results hold one
\* TradeResult per snapshotted position, in the snapshot's order.
C39_OneResultPerPosition ==
    pc = "e_clr_pos"
        => /\ Len(results) = Len(snapshot)
           /\ \A i \in 1..Len(results) : results[i].token = snapshot[i]

\* C40: the slippage sent with a buy quote request is within 1..5000 basis
\* points: 100 for a requested 0, 5000 for a requested value above 5000, and
\* the requested value otherwise.
C40_SlippageClamped ==
    (trade.kind = "buy_jupiter" /\ trade.slippage_sent # NoSlippage)
        => /\ trade.slippage_sent \in 1..5000
           /\ trade.slippage_bps = 0 => trade.slippage_sent = 100
           /\ trade.slippage_bps > 5000 => trade.slippage_sent = 5000
           /\ trade.slippage_bps \in 1..5000 => trade.slippage_sent = trade.slippage_bps

\* The second quote request of a buy that asked for more than the cap went
\* out with the cap.
C40_Witness ==
    /\ trade.kind = "buy_jupiter"
    /\ trade.quote_requests = 2
    /\ trade.slippage_bps > MaxSlippageBps
    /\ trade.slippage_sent = MaxSlippageBps

====
